---- MODULE Spec2Model ----
(***************************************************************************)
(* State-machine model of src/src/direct-executor-server.js: the tool      *)
(* router (callToolHandler), the two executors (executeCode,               *)
(* executeDenoCode) with their child-process event handlers, and the       *)
(* search delegation (performCodeSearch).                                  *)
(*                                                                         *)
(* JavaScript runs each callback to completion, so every action below is   *)
(* one synchronous stretch of code between two suspension points.          *)
(*                                                                         *)
(* Encodings.  An optional JavaScript value (undefined / null / a value v) *)
(* is the empty tuple <<>> or the one-element tuple <<v>>.  A JavaScript   *)
(* object is a record whose DOMAIN holds only the properties that were     *)
(* set.  A source text is a sequence of lexical pieces; an output stream   *)
(* is a sequence of one-character pieces; a rendered text is a sequence    *)
(* of string pieces whose concatenation is the JavaScript string.          *)
(***************************************************************************)
EXTENDS Integers, Sequences, FiniteSets, TLC

\* ---------------------------------------------------------------- bounds
MaxTime == 1
MaxRand == 2
MaxChunks == 2
MaxCodeLen == 3
MaxArgLen == 3
MaxDeletes == 1

Req == {1, 2}

\* ------------------------------------------------------- optional values
Undefined == <<>>
Null == <<>>
Some(v) == <<v>>

Has(o, f) == f \in DOMAIN o

\* ----------------------------------------------------------- tool inputs
DefaultTimeout == 120000

NodeToolNames == {"executenodejs", "execute", "mcp_mcp_repl_execute"}
DenoToolNames == {"executedeno", "mcp_mcp_repl_executedeno"}
SearchToolNames == {"searchcode", "mcp_mcp_repl_searchcode"}

\* The names a request may carry: every dispatched name and two others.
ToolNames == NodeToolNames \cup DenoToolNames \cup SearchToolNames
                \cup {"listfiles", "undefined"}

\* Lexical pieces of a source text.
Tokens == {"require", "(", "module", ".", "exports", "__dirname",
           "__filename", "x"}

cjsMarkers == << <<"require", "(">>,
                 <<"module", ".", "exports">>,
                 <<"__dirname">>,
                 <<"__filename">>,
                 <<"exports", ".">> >>

\* String.prototype.includes: marker occurs at some offset of code.
Includes(code, marker) ==
    \E i \in 0..(Len(code) - Len(marker)) :
        \A k \in 1..Len(marker) : code[i + k] = marker[k]

IsCjsDropLast(code) ==
    \E m \in 1..(Len(cjsMarkers) - 1) : Includes(code, cjsMarkers[m])

\* cjsMarkers.some(marker => code.includes(marker))
IsCjs(code) ==
    \E m \in 1..Len(cjsMarkers) : Includes(code, cjsMarkers[m])

\* The source texts the requests of the server model carry.
SampleCodes == { <<"x">>, <<"require", "(", "x">>, <<"return", "x">> }

\* Values of the code argument: absent, the empty string, a source text.
CodeArgs == {Undefined, Some(<<>>)} \cup {Some(c) : c \in SampleCodes}

\* Values of the timeout argument: absent, or a number spawn refuses.
TimeoutArgs == {Undefined, Some(0 - 1)}

QueryArgs == {Undefined, Some(<<"parse config">>)}

\* Values of the folders, extensions and ignores arguments in the server
\* model: absent, or a comma-separated string, one character per piece.
FolderArgs == {Undefined, Some(<<"a", ",", " ", "a">>)}
ExtensionArgs == {Undefined, Some(<<".", "a">>)}
IgnoreArgs == {Undefined, Some(<<" ", "a">>)}
TopKArgs == {Undefined, Some(0), Some(3)}

\* Characters of a list argument.
ArgChars == {"a", ",", " ", "."}

FalsyUndefinedOnly(arg) == arg = Undefined

\* !code, !query: undefined and the empty string are falsy.
Falsy(arg) == arg = Undefined \/ arg = Some(<<>>)

\* ------------------------------------------------------------------ state
VARIABLES
    now,        \* Date.now()
    pc,         \* per request: where callToolHandler is suspended
    strategy,   \* per request: which executor body ran
    startTime,  \* per request: const startTime of the executor
    tempFile,   \* per request: const tempFile (commonjs strategy)
    child,      \* per request: the spawned child process as the OS sees it
    stdout,     \* per request: let stdout
    stderr,     \* per request: let stderr
    promise,    \* per request: the executor's result promise
    response,   \* per request: what callToolHandler returned
    request,    \* per request: name, code, timeout, query as destructured
    spawns,     \* per request: number of spawn() calls made
    searchOps,  \* per request: search-collaborator operations called
    tempDir,    \* whether <workingDir>/temp exists
    files,      \* the temp files present in <workingDir>/temp
    events,     \* per request: the terminal events its child has emitted
    draw,       \* per request: the Date.now() and random value in tempFile
    chunks,     \* per request and stream: the chunks of its 'data' events
                \* so far, in arrival order
    external    \* the deletions done in the temp directory from outside the
                \* program so far, each with the requests finished by then

vars == <<now, pc, strategy, startTime, tempFile, child, stdout, stderr,
          promise, response, request, spawns, searchOps, tempDir, files,
          events, draw, chunks, external>>

\* ------------------------------------------------------- result objects
IsZeroLoose(code) == code = Null \/ code = Some(0)

\* code === 0
IsZero(code) == code = Some(0)

\* code || 0 takes the default: code is null or 0.
IsFalsyCode(code) == code = Null \/ code = Some(0)

CloseResultTimedOut(code, out, err, ms) ==
    IF code = Null
    THEN [success |-> FALSE, error |-> <<"Execution timed out">>,
          executionTimeMs |-> ms]
    ELSE [success |-> code = Some(0), stdout |-> out, stderr |-> err,
          executionTimeMs |-> ms, code |-> code]

\* resolve({ success: code === 0, stdout, stderr, executionTimeMs, code })
CloseResult(code, out, err, ms) ==
    [success |-> IsZero(code), stdout |-> out, stderr |-> err,
     executionTimeMs |-> ms, code |-> code]

ErrorResultWithCode(msg, ms) ==
    [success |-> FALSE, error |-> msg, executionTimeMs |-> ms, code |-> Some(1)]

\* resolve({ success: false, error: err.message, executionTimeMs })
ErrorResult(msg, ms) ==
    [success |-> FALSE, error |-> msg, executionTimeMs |-> ms]

\* executeCode's catch: return { success: false, error: err.message }
CatchResult(msg) == [success |-> FALSE, error |-> msg]

\* --------------------------------------------------------------- promise
Pending == [state |-> "pending"]

Settled(p) == p.state # "pending"

ResolveOverwrite(p, v) == [state |-> "fulfilled", value |-> v]

\* resolve(v): the first settlement wins, later calls are ignored.
Resolve(p, v) ==
    IF p.state = "pending" THEN [state |-> "fulfilled", value |-> v] ELSE p

\* A throw inside the promise executor rejects the promise.
Reject(p, msg) ==
    IF p.state = "pending" THEN [state |-> "rejected", value |-> msg] ELSE p

\* ------------------------------------------------------------- rendering
RECURSIVE TrimLeft(_)
TrimLeft(s) == IF s # <<>> /\ Head(s) = " " THEN TrimLeft(Tail(s)) ELSE s

RECURSIVE TrimRight(_)
TrimRight(s) ==
    IF s # <<>> /\ s[Len(s)] = " " THEN TrimRight(SubSeq(s, 1, Len(s) - 1))
    ELSE s

\* String.prototype.trim
Trim(s) == TrimRight(TrimLeft(s))

\* { type: 'text', text }
Segment(text) == [type |-> "text", text |-> text]

ErrorPrefix == "ERROR: "

\* `${result.executionTimeMs}`
ShowMs(result) ==
    IF Has(result, "executionTimeMs") THEN ToString(result.executionTimeMs)
    ELSE "undefined"

\* `${result.code || 0}`
ShowCode(result) ==
    IF Has(result, "code") /\ ~IsFalsyCode(result.code)
    THEN ToString(result.code[1]) ELSE "0"

StderrSegmentsUnprefixed(result) ==
    IF Has(result, "stderr") /\ result.stderr # <<>>
    THEN << Segment(Trim(result.stderr)) >> ELSE <<>>

\* if (result.stdout) outputLines.push(result.stdout.trim())
StdoutSegments(result) ==
    IF Has(result, "stdout") /\ result.stdout # <<>>
    THEN << Segment(Trim(result.stdout)) >> ELSE <<>>

\* if (result.stderr) outputLines.push(`ERROR: ${result.stderr.trim()}`)
StderrSegments(result) ==
    IF Has(result, "stderr") /\ result.stderr # <<>>
    THEN << Segment(<<ErrorPrefix>> \o Trim(result.stderr)) >> ELSE <<>>

\* if (!result.success && result.error) outputLines.push(`ERROR: ${result.error}`)
ErrorSegments(result) ==
    IF ~result.success /\ Has(result, "error") /\ result.error # <<>>
    THEN << Segment(<<ErrorPrefix>> \o result.error) >> ELSE <<>>

SummaryLabel(strat) ==
    IF strat = "deno" THEN "Deno execution completed in "
    ELSE "Execution completed in "

\* The trailing summary segment.
SummarySegment(result, strat) ==
    Segment(<<SummaryLabel(strat), ShowMs(result), "ms with exit code ",
              ShowCode(result)>>)

\* The content callToolHandler builds from an executor's result.
ExecContent(result, strat) ==
    StdoutSegments(result) \o StderrSegments(result) \o ErrorSegments(result)
        \o << SummarySegment(result, strat) >>

CatchContentEmpty(msg) == <<>>

\* callToolHandler's catch: a single `ERROR: ${error.message}` segment.
CatchContent(msg) == << Segment(<<ErrorPrefix>> \o msg) >>

\* What `await executeCode(...)` turns into once the promise has settled.
AwaitContent(p, strat) ==
    IF p.state = "rejected" THEN CatchContent(p.value)
    ELSE ExecContent(p.value, strat)

\* ---------------------------------------------------------- environment
\* What spawn() can do: throw synchronously (an option it refuses, or a
\* failure other than ENOENT/EACCES), report the failure on the next tick
\* through 'error', or start the child.
SpawnOutcomes == {"throw", "enoent", "ok"}

\* child_process validates the timeout option: an integer >= 0.
ValidTimeout(t) == t >= 0

\* Exit status 'close' reports for a child that ran: a number, or null
\* when a signal ended it.
ExitCodes == {Some(0), Some(1), Null}

\* 'close' after a failed spawn reports the negative errno.
SpawnErrno == Some(0 - 2)

\* The source text has a return statement at its top level.
TopLevelReturn(code) == \E i \in 1..Len(code) : code[i] = "return"

\* A runtime that reads the text as a module (node --input-type=module,
\* deno run -) refuses a top-level return as a syntax error; a .cjs file
\* is wrapped in a function and may return.
RuntimeRejects(strat, code) ==
    strat \in {"module", "deno"} /\ TopLevelReturn(code)

\* Pieces a child writes to a stream.
OutChars == {"x", " "}

NoRequest ==
    [name |-> "", code |-> Undefined, timeout |-> Undefined, query |-> Undefined,
     folders |-> Undefined, extensions |-> Undefined, ignores |-> Undefined,
     topK |-> Undefined]

NoChild == [state |-> "none", code |-> Null, terminated |-> FALSE]

Running(r) == child[r].state \in {"alive", "alive_nt", "killed"}

\* Messages of the errors the environment raises.
SpawnThrowMsg == <<"The value of \"timeout\" is out of range">>
SpawnErrorMsg == <<"spawn ENOENT">>
KillErrorMsg == <<"kill EPERM">>
MkdirErrorMsg == <<"EACCES: permission denied, mkdir">>
WriteErrorMsg == <<"ENOSPC: no space left on device, write">>
WriteNoDirMsg == <<"ENOENT: no such file or directory, open">>

\* ----------------------------------------------------------------- Init
Init ==
    /\ now = 0
    /\ pc = [r \in Req |-> "idle"]
    /\ strategy = [r \in Req |-> "none"]
    /\ startTime = [r \in Req |-> 0]
    /\ tempFile = [r \in Req |-> Undefined]
    /\ child = [r \in Req |-> NoChild]
    /\ stdout = [r \in Req |-> <<>>]
    /\ stderr = [r \in Req |-> <<>>]
    /\ promise = [r \in Req |-> Pending]
    /\ response = [r \in Req |-> <<>>]
    /\ request = [r \in Req |-> NoRequest]
    /\ spawns = [r \in Req |-> 0]
    /\ searchOps = [r \in Req |-> <<>>]
    /\ tempDir \in BOOLEAN
    /\ files = {}
    /\ events = [r \in Req |-> <<>>]
    /\ draw = [r \in Req |-> <<>>]
    /\ chunks = [r \in Req |-> [stdout |-> <<>>, stderr |-> <<>>]]
    /\ external = <<>>

\* The concatenation of a sequence of chunks.
RECURSIVE Concat(_)
Concat(cs) == IF cs = <<>> THEN <<>> ELSE Head(cs) \o Concat(Tail(cs))

\* ------------------------------------------------ handler building blocks
\* The continuation of `await executor(...)`: runs in the microtasks that
\* follow the callback which settled promise p; until then the handler
\* stays suspended.
Deliver(r, p) ==
    IF pc[r] # "done" /\ Settled(p)
    THEN /\ response' = [response EXCEPT ![r] = AwaitContent(p, strategy'[r])]
         /\ pc' = [pc EXCEPT ![r] = "done"]
    ELSE /\ response' = response
         /\ pc' = [pc EXCEPT ![r] = IF @ = "done" THEN "done" ELSE "await_exec"]

SpawnChildRetry(r, t, outcome) ==
    /\ ~ValidTimeout(t) => outcome = "throw"
    /\ spawns' = [spawns EXCEPT ![r] = IF outcome = "ok" THEN @ + 1 ELSE @ + 2]
    /\ child' = [child EXCEPT ![r].state =
                    CASE outcome = "ok" -> "alive"
                      [] outcome = "enoent" -> "spawnfail"
                      [] OTHER -> "none"]
    /\ promise' = [promise EXCEPT ![r] =
                    IF outcome = "throw" THEN Reject(@, SpawnThrowMsg) ELSE @]
    /\ Deliver(r, promise'[r])

\* new Promise(resolve => { spawn(...); ...on('close')...; ...on('error') })
SpawnChild(r, t, outcome) ==
    /\ ~ValidTimeout(t) => outcome = "throw"
    /\ spawns' = [spawns EXCEPT ![r] = @ + 1]
    /\ child' = [child EXCEPT ![r].state =
                    CASE outcome = "ok" -> "alive"
                      [] outcome = "enoent" -> "spawnfail"
                      [] OTHER -> "none"]
    /\ promise' = [promise EXCEPT ![r] =
                    IF outcome = "throw" THEN Reject(@, SpawnThrowMsg) ELSE @]
    /\ Deliver(r, promise'[r])

\* throw new Error(msg) inside callToolHandler's try, caught at its end.
RouterThrow(r, msg) ==
    /\ response' = [response EXCEPT ![r] = CatchContent(msg)]
    /\ pc' = [pc EXCEPT ![r] = "done"]
    /\ UNCHANGED <<now, strategy, startTime, tempFile, child, stdout, stderr,
                   promise, spawns, searchOps, tempDir, files, events, draw, chunks, external>>

\* try { fs.unlinkSync(path) } catch (err) {}
Unlink(fs, path, ok) == IF ok THEN fs \ {path} ELSE fs

CleanupSweep(fs, r, ok) == IF ok THEN {} ELSE fs

\* The commonjs handlers' cleanup; the other strategies have none.
Cleanup(fs, r, ok) ==
    IF strategy[r] = "commonjs" THEN Unlink(fs, tempFile[r][1], ok) ELSE fs

CleanupThrows(r, ok, p, resolved) ==
    IF strategy[r] = "commonjs" /\ ~ok THEN p ELSE resolved

\* try { fs.unlinkSync(tempFile) } catch (err) {} followed by resolve(...):
\* a failing deletion is swallowed, so the handler always goes on to
\* resolve.  p is the promise before the handler, resolved the promise
\* after its resolve call.
CleanupThenResolve(r, ok, p, resolved) == resolved

OnCloseSharedBuffers(p, r, code) ==
    Resolve(p, CloseResult(code, Concat(chunks[1].stdout \o chunks[2].stdout),
                           Concat(chunks[1].stderr \o chunks[2].stderr),
                           now - startTime[r]))

\* nodeProcess.on('close', (code) => ...): the promise after the handler.
OnClose(p, r, code) ==
    Resolve(p, CloseResult(code, stdout[r], stderr[r], now - startTime[r]))

\* nodeProcess.on('error', (err) => ...): the promise after the handler.
OnError(p, r, msg) ==
    Resolve(p, ErrorResult(msg, now - startTime[r]))

\* ---------------------------------------------------------------- router
\* Invocations are numbered in arrival order.
Arrives(r) == pc[r] = "idle" /\ \A q \in Req : q < r => pc[q] # "idle"

\* const { name, arguments: args = {} } = request.params, and the
\* arguments the taken branch destructures from args.
Destructured(name, code, targ, query) ==
    [NoRequest EXCEPT !.name = name, !.code = code, !.timeout = targ,
                      !.query = query]

\* const { code, timeout = 120000 } = args
TimeoutOf(arg) == IF arg = Undefined THEN DefaultTimeout ELSE arg[1]

\* executeCode up to its first suspension point: the module strategy
\* spawns at once, the commonjs strategy awaits import('fs') first.
ExecuteCode(r, code, t, outcome) ==
    /\ startTime' = [startTime EXCEPT ![r] = now]
    /\ IF IsCjs(code)
       THEN /\ strategy' = [strategy EXCEPT ![r] = "commonjs"]
            /\ pc' = [pc EXCEPT ![r] = "import_fs"]
            /\ outcome = "ok"
            /\ UNCHANGED <<child, promise, response, spawns>>
       ELSE /\ strategy' = [strategy EXCEPT ![r] = "module"]
            /\ SpawnChild(r, t, outcome)
    /\ UNCHANGED <<now, tempFile, stdout, stderr, searchOps, tempDir, files,
                   events, draw, chunks, external>>

\* executeDenoCode: always the stdin-pipe promise.
ExecuteDenoCode(r, code, t, outcome) ==
    /\ startTime' = [startTime EXCEPT ![r] = now]
    /\ strategy' = [strategy EXCEPT ![r] = "deno"]
    /\ SpawnChild(r, t, outcome)
    /\ UNCHANGED <<now, tempFile, stdout, stderr, searchOps, tempDir, files,
                   events, draw, chunks, external>>

\* performCodeSearch up to `await getVectorIndexer()`.
PerformCodeSearch(r, query) ==
    /\ startTime' = [startTime EXCEPT ![r] = now]
    /\ strategy' = [strategy EXCEPT ![r] = "search"]
    /\ pc' = [pc EXCEPT ![r] = "search_import"]
    /\ UNCHANGED <<now, tempFile, child, stdout, stderr, promise, response,
                   spawns, searchOps, tempDir, files, events, draw, chunks, external>>

\* name === 'executenodejs' || 'execute' || 'mcp_mcp_repl_execute'
CallNode(r, name, code, targ, outcome) ==
    /\ Arrives(r)
    /\ name \in NodeToolNames
    /\ request' = [request EXCEPT ![r] = Destructured(name, code, targ, Undefined)]
    /\ IF Falsy(code)
       THEN /\ outcome = "ok"
            /\ RouterThrow(r, <<"Missing code argument for execute tool">>)
       ELSE ExecuteCode(r, code[1], TimeoutOf(targ), outcome)

\* name === 'executedeno' || 'mcp_mcp_repl_executedeno'
CallDeno(r, name, code, targ, outcome) ==
    /\ Arrives(r)
    /\ name \in DenoToolNames
    /\ request' = [request EXCEPT ![r] = Destructured(name, code, targ, Undefined)]
    /\ IF Falsy(code)
       THEN /\ outcome = "ok"
            /\ RouterThrow(r, <<"Missing code argument for Deno execute tool">>)
       ELSE ExecuteDenoCode(r, code[1], TimeoutOf(targ), outcome)

\* name === 'searchcode' || 'mcp_mcp_repl_searchcode'
CallSearch(r, name, query, folders, extensions, ignores, topK) ==
    /\ Arrives(r)
    /\ name \in SearchToolNames
    /\ request' = [request EXCEPT ![r] =
                      [Destructured(name, Undefined, Undefined, query)
                          EXCEPT !.folders = folders, !.extensions = extensions,
                                 !.ignores = ignores, !.topK = topK]]
    /\ IF Falsy(query)
       THEN RouterThrow(r, <<"Missing query argument for code search tool">>)
       ELSE PerformCodeSearch(r, query[1])

UnknownToolMsgBare(name) == <<"Unknown tool">>

\* `Unknown tool: ${name}`
UnknownToolMsg(name) == <<"Unknown tool: ", name>>

\* throw new Error(`Unknown tool: ${name}`)
CallUnknown(r, name) ==
    /\ Arrives(r)
    /\ name \notin NodeToolNames \cup DenoToolNames \cup SearchToolNames
    /\ request' = [request EXCEPT ![r] = Destructured(name, Undefined, Undefined, Undefined)]
    /\ RouterThrow(r, UnknownToolMsg(name))

\* ------------------------------------------------- commonjs strategy body
\* path.join(tempDir, `node-exec-${Date.now()}-${random}.cjs`)
TempPathNoRandom(ts, rnd) == <<"temp/node-exec-", ToString(ts), ".cjs">>

TempPath(ts, rnd) ==
    <<"temp/node-exec-", ToString(ts), "-", ToString(rnd), ".cjs">>

WriteFileThenUnlink(fs, path) == fs \ {path}

\* fs.writeFileSync(tempFile, code, 'utf8'): the file is there afterwards
\* and stays until a handler unlinks it.
WriteFile(fs, path) == fs \cup {path}

DirExistsAssumed(dir) == TRUE

\* fs.existsSync(tempDir)
DirExists(dir) == dir

\* executeCode after `await import('fs')`: mkdirSync when the directory is
\* missing, the file name, writeFileSync, then the spawn promise.  A throw
\* of mkdirSync or writeFileSync lands in executeCode's catch; writing
\* into a directory that is not there throws ENOENT.
CjsBody(r, mkdirOk, rnd, writeOk, outcome) ==
    /\ pc[r] = "import_fs"
    /\ UNCHANGED <<now, strategy, startTime, stdout, stderr, request, searchOps,
                   events, chunks, external>>
    /\ IF ~DirExists(tempDir) /\ ~mkdirOk
       THEN /\ writeOk /\ outcome = "ok" /\ rnd = 1
            /\ promise' = [promise EXCEPT ![r] = Resolve(@, CatchResult(MkdirErrorMsg))]
            /\ Deliver(r, promise'[r])
            /\ UNCHANGED <<tempFile, child, spawns, tempDir, files, draw>>
       ELSE /\ mkdirOk
            /\ tempDir' = (tempDir \/ ~DirExists(tempDir))
            /\ draw' = [draw EXCEPT ![r] = <<now, rnd>>]
            /\ tempFile' = [tempFile EXCEPT ![r] = Some(TempPath(now, rnd))]
            /\ IF ~tempDir'
               THEN /\ writeOk /\ outcome = "ok"
                    /\ promise' = [promise EXCEPT ![r] =
                                      Resolve(@, CatchResult(WriteNoDirMsg))]
                    /\ Deliver(r, promise'[r])
                    /\ UNCHANGED <<child, spawns, files>>
               ELSE IF ~writeOk
               THEN /\ outcome = "ok"
                    /\ promise' = [promise EXCEPT ![r] =
                                      Resolve(@, CatchResult(WriteErrorMsg))]
                    /\ Deliver(r, promise'[r])
                    /\ UNCHANGED <<child, spawns, files>>
               ELSE /\ files' = WriteFile(files, TempPath(now, rnd))
                    /\ SpawnChild(r, TimeoutOf(request[r].timeout), outcome)

\* --------------------------------------------------- the world outside
\* Some commonjs request has written its temp file and not yet returned.
LiveTempFile == \E r \in Req : tempFile[r] # Undefined /\ pc[r] # "done"

Finished == {r \in Req : pc[r] = "done"}

\* Someone removes <workingDir>/temp and all it holds, at a moment when
\* no request has a live temp file.
DeleteTempDir ==
    /\ Len(external) < MaxDeletes
    /\ ~LiveTempFile
    /\ tempDir
    /\ tempDir' = FALSE
    /\ files' = {}
    /\ external' = Append(external, [what |-> "dir", done |-> Finished])
    /\ UNCHANGED <<now, pc, strategy, startTime, tempFile, child, stdout, stderr,
                   promise, response, request, spawns, searchOps, events, draw,
                   chunks>>

\* Someone removes one file of <workingDir>/temp.
DeleteTempFile(f) ==
    /\ Len(external) < MaxDeletes
    /\ f \in files
    /\ files' = files \ {f}
    /\ external' = Append(external, [what |-> "file", done |-> Finished])
    /\ UNCHANGED <<now, pc, strategy, startTime, tempFile, child, stdout, stderr,
                   promise, response, request, spawns, searchOps, tempDir, events,
                   draw, chunks>>

\* ---------------------------------------------------------- child events
AccumulateLast(buf, data) == << data >>

\* stdout += data, stderr += data
Accumulate(buf, data) == Append(buf, data)

\* stdout.on('data', data => { stdout += data })
StdoutData(r, c) ==
    /\ Running(r)
    /\ Len(stdout[r]) + Len(stderr[r]) < MaxChunks
    /\ stdout' = [stdout EXCEPT ![r] = Accumulate(@, c)]
    /\ chunks' = [chunks EXCEPT ![r].stdout = Append(@, <<c>>)]
    /\ UNCHANGED <<now, pc, strategy, startTime, tempFile, child, stderr,
                   promise, response, request, spawns, searchOps, tempDir, files,
                   events, draw, external>>

\* stderr.on('data', data => { stderr += data })
StderrData(r, c) ==
    /\ Running(r)
    /\ Len(stdout[r]) + Len(stderr[r]) < MaxChunks
    /\ stderr' = [stderr EXCEPT ![r] = Accumulate(@, c)]
    /\ chunks' = [chunks EXCEPT ![r].stderr = Append(@, <<c>>)]
    /\ UNCHANGED <<now, pc, strategy, startTime, tempFile, child, stdout,
                   promise, response, request, spawns, searchOps, tempDir, files,
                   events, draw, external>>

\* A failed spawn: on the next tick the child emits 'error' and then, in
\* the same tick, 'close' with the negative errno.  Both handlers run.
SpawnErrorNT(r, ok1, ok2) ==
    /\ child[r].state = "spawnfail"
    /\ child' = [child EXCEPT ![r].state = "closed", ![r].code = SpawnErrno]
    /\ events' = [events EXCEPT ![r] = @ \o <<"error", "close">>]
    /\ UNCHANGED <<now, strategy, startTime, tempFile, stdout, stderr,
                   request, spawns, searchOps, tempDir, draw, chunks, external>>
    /\ files' = Cleanup(Cleanup(files, r, ok1), r, ok2)
    /\ promise' = [promise EXCEPT ![r] =
          LET afterError ==
                  CleanupThenResolve(r, ok1, @, OnError(@, r, SpawnErrorMsg))
          IN  CleanupThenResolve(r, ok2, afterError,
                                 OnClose(afterError, r, SpawnErrno))]
    /\ Deliver(r, promise'[r])

\* The timer the timeout option arms fires: child.kill('SIGTERM').  The
\* signal ends the child, or the child ignores it, or kill fails and the
\* child emits 'error' while it keeps running.
TimeoutExpire(r, outcome, ok) ==
    /\ child[r].state = "alive"
    /\ TimeoutOf(request[r].timeout) > 0
    /\ UNCHANGED <<now, strategy, startTime, tempFile, stdout, stderr,
                   request, spawns, searchOps, tempDir, draw, chunks, external>>
    /\ CASE outcome = "killed" ->
              /\ ok
              /\ child' = [child EXCEPT ![r].state = "killed",
                                        ![r].terminated = TRUE]
              /\ UNCHANGED <<files, promise, pc, response, events>>
         [] outcome = "ignored" ->
              /\ ok
              /\ child' = [child EXCEPT ![r].state = "alive_nt"]
              /\ UNCHANGED <<files, promise, pc, response, events>>
         [] OTHER ->
              /\ outcome = "killfail"
              /\ events' = [events EXCEPT ![r] = Append(@, "error")]
              /\ child' = [child EXCEPT ![r].state = "alive_nt"]
              /\ files' = Cleanup(files, r, ok)
              /\ promise' = [promise EXCEPT ![r] =
                    CleanupThenResolve(r, ok, @, OnError(@, r, KillErrorMsg))]
              /\ Deliver(r, promise'[r])

\* The child has exited and its streams have ended: 'close' with the exit
\* code, null when a signal ended it.
ChildClose(r, code, ok) ==
    /\ Running(r)
    /\ code \in ExitCodes
    /\ child[r].state = "killed" => code = Null
    /\ RuntimeRejects(strategy[r], request[r].code[1]) => code # Some(0)
    /\ child' = [child EXCEPT ![r].state = "closed", ![r].code = code]
    /\ events' = [events EXCEPT ![r] = Append(@, "close")]
    /\ UNCHANGED <<now, strategy, startTime, tempFile, stdout, stderr,
                   request, spawns, searchOps, tempDir, draw, chunks, external>>
    /\ files' = Cleanup(files, r, ok)
    /\ promise' = [promise EXCEPT ![r] =
                      CleanupThenResolve(r, ok, @, OnClose(@, r, code))]
    /\ Deliver(r, promise'[r])

\* Date.now() advances.
Tick ==
    /\ now < MaxTime
    /\ now' = now + 1
    /\ UNCHANGED <<pc, strategy, startTime, tempFile, child, stdout, stderr,
                   promise, response, request, spawns, searchOps, tempDir, files,
                   events, draw, chunks, external>>

\* ---------------------------------------------------------------- search
\* Messages of the errors the search collaborator raises.
ImportErrorMsg == <<"Cannot find module js-vector-indexer.js">>
SyncErrorMsg == <<"syncIndex failed">>
QueryErrorMsg == <<"queryIndex failed">>

\* Result lists queryIndex may return.
QueryResults == { <<>>, <<"hit">> }

\* process.cwd(), its parent, and the workingDir the server was started on.
Cwd == <<"/srv", "/cwd">>
CwdParent == <<"/srv">>
WorkingDir == <<"/work">>

\* String.prototype.split(','): the items between the commas.
RECURSIVE Split(_)
Split(s) ==
    IF \E i \in 1..Len(s) : s[i] = ","
    THEN LET i == CHOOSE k \in 1..Len(s) :
                     s[k] = "," /\ \A j \in 1..(k - 1) : s[j] # ","
         IN  << SubSeq(s, 1, i - 1) >> \o Split(SubSeq(s, i + 1, Len(s)))
    ELSE << s >>

\* path.resolve(p) for a p without separators: relative to process.cwd().
PathResolve(p) ==
    CASE p = <<>> \/ p = <<".">> -> Cwd
      [] p = <<".", ".">> -> CwdParent
      [] OTHER -> Cwd \o <<"/">> \o p

StripDotNever(e) == e

\* e.replace(/^\./, '')
StripDot(e) == IF e # <<>> /\ Head(e) = "." THEN Tail(e) ELSE e

\* folders ? folders.split(',').map(f => path.resolve(f.trim())) : [workingDir]
SearchFolders(arg) ==
    IF Falsy(arg) THEN << WorkingDir >>
    ELSE [i \in 1..Len(Split(arg[1])) |-> PathResolve(Trim(Split(arg[1])[i]))]

\* extensions ? extensions.split(',').map(e => e.trim().replace(/^\./, ''))
\*            : ['js', 'ts']
SearchExts(arg) ==
    IF Falsy(arg) THEN << <<"js">>, <<"ts">> >>
    ELSE [i \in 1..Len(Split(arg[1])) |-> StripDot(Trim(Split(arg[1])[i]))]

\* ignores ? ignores.split(',').map(i => i.trim()) : ['node_modules']
SearchIgnores(arg) ==
    IF Falsy(arg) THEN << <<"node_modules">> >>
    ELSE [i \in 1..Len(Split(arg[1])) |-> Trim(Split(arg[1])[i])]

DefaultTopK == 8

\* topK || 8
TopKOf(arg) == IF arg = Undefined \/ arg = Some(0) THEN DefaultTopK ELSE arg[1]

\* Array.prototype.join(', ')
RECURSIVE JoinComma(_)
JoinComma(items) ==
    IF items = <<>> THEN <<>>
    ELSE IF Len(items) = 1 THEN items[1]
    ELSE items[1] \o <<", ">> \o JoinComma(Tail(items))

\* performCodeSearch's catch, rendered by the router's failure branch.
SearchFailure(r, msg) ==
    /\ response' = [response EXCEPT ![r] = << Segment(<<ErrorPrefix>> \o msg) >>]
    /\ pc' = [pc EXCEPT ![r] = "done"]

\* The router's rendering of a successful search.
SearchContent(req, results, ms) ==
    << Segment(<<"Code search for \"">> \o req.query[1]
               \o <<"\"\nSearched in: ">> \o JoinComma(SearchFolders(req.folders))
               \o <<"\nIncluded extensions: ">>
               \o JoinComma(SearchExts(req.extensions))
               \o <<"\nIgnored patterns: ">>
               \o JoinComma(SearchIgnores(req.ignores))) >>
    \o (IF Len(results) = 0
        THEN << Segment(<<"No results found.">>) >>
        ELSE << Segment(<<"Found ", ToString(Len(results)), " result(s):">>) >>
             \o [i \in 1..Len(results) |-> Segment(<<results[i]>>)])
    \o << Segment(<<"Search completed in ", ToString(ms), "ms">>) >>

SearchFrame ==
    UNCHANGED <<now, strategy, startTime, tempFile, child, stdout, stderr,
                promise, request, spawns, tempDir, files, events, draw, chunks, external>>

\* const { syncIndex } = await getVectorIndexer(); syncIndex(...) is called.
SearchImported(r, ok) ==
    /\ pc[r] = "search_import"
    /\ SearchFrame
    /\ IF ok
       THEN /\ searchOps' = [searchOps EXCEPT ![r] = Append(@,
                   [op |-> "syncIndex",
                    args |-> << SearchFolders(request[r].folders),
                                SearchExts(request[r].extensions),
                                SearchIgnores(request[r].ignores) >>,
                    settled |-> "pending"])]
            /\ pc' = [pc EXCEPT ![r] = "search_sync"]
            /\ UNCHANGED response
       ELSE /\ SearchFailure(r, ImportErrorMsg)
            /\ UNCHANGED searchOps

\* The promise of the last collaborator call settles.
Settle(ops, how) == [ops EXCEPT ![Len(ops)].settled = how]

\* queryIndex(query, topK || 8) is called.
QueryCall(r) ==
    [op |-> "queryIndex",
     args |-> << request[r].query[1], TopKOf(request[r].topK) >>,
     settled |-> "pending"]

SyncIndexDoneLenient(r, ok) ==
    /\ pc[r] = "search_sync"
    /\ SearchFrame
    /\ searchOps' = [searchOps EXCEPT ![r] =
          Append(Settle(@, IF ok THEN "fulfilled" ELSE "rejected"), QueryCall(r))]
    /\ pc' = [pc EXCEPT ![r] = "search_query"]
    /\ UNCHANGED response

\* await syncIndex(...) settles; on success queryIndex(...) is called.
SyncIndexDone(r, ok) ==
    /\ pc[r] = "search_sync"
    /\ SearchFrame
    /\ IF ok
       THEN /\ searchOps' = [searchOps EXCEPT ![r] =
                   Append(Settle(@, "fulfilled"), QueryCall(r))]
            /\ pc' = [pc EXCEPT ![r] = "search_query"]
            /\ UNCHANGED response
       ELSE /\ SearchFailure(r, SyncErrorMsg)
            /\ searchOps' = [searchOps EXCEPT ![r] = Settle(@, "rejected")]

\* await queryIndex(...) settles and the router renders the outcome.
QueryIndexDone(r, ok, results) ==
    /\ pc[r] = "search_query"
    /\ SearchFrame
    /\ IF ok
       THEN /\ response' = [response EXCEPT ![r] =
                   SearchContent(request[r], results, now - startTime[r])]
            /\ pc' = [pc EXCEPT ![r] = "done"]
            /\ searchOps' = [searchOps EXCEPT ![r] = Settle(@, "fulfilled")]
       ELSE /\ results = <<>>
            /\ SearchFailure(r, QueryErrorMsg)
            /\ searchOps' = [searchOps EXCEPT ![r] = Settle(@, "rejected")]

\* ------------------------------------------------------- specifications
\* One step of the server: a request arrives, a suspended handler resumes,
\* a child emits an event, or time passes.  R are the invocations that
\* take part; Names, Codes, Timeouts and Chars are the inputs drawn.
Step(R, Names, Codes, Timeouts, Chars) ==
    \/ \E r \in R, name \in Names, code \in Codes,
          targ \in Timeouts, outcome \in SpawnOutcomes :
            \/ CallNode(r, name, code, targ, outcome)
            \/ CallDeno(r, name, code, targ, outcome)
    \/ \E r \in R, name \in Names, query \in QueryArgs,
          folders \in FolderArgs, extensions \in ExtensionArgs,
          ignores \in IgnoreArgs, topK \in TopKArgs :
            CallSearch(r, name, query, folders, extensions, ignores, topK)
    \/ \E r \in R, name \in Names : CallUnknown(r, name)
    \/ \E r \in R, mkdirOk \in BOOLEAN, rnd \in 1..MaxRand,
          writeOk \in BOOLEAN, outcome \in SpawnOutcomes :
            CjsBody(r, mkdirOk, rnd, writeOk, outcome)
    \/ \E r \in R, c \in Chars : StdoutData(r, c) \/ StderrData(r, c)
    \/ \E r \in R, ok1 \in BOOLEAN, ok2 \in BOOLEAN : SpawnErrorNT(r, ok1, ok2)
    \/ \E r \in R, outcome \in {"killed", "ignored", "killfail"},
          ok \in BOOLEAN : TimeoutExpire(r, outcome, ok)
    \/ \E r \in R, code \in ExitCodes, ok \in BOOLEAN : ChildClose(r, code, ok)
    \/ \E r \in R, ok \in BOOLEAN : SearchImported(r, ok) \/ SyncIndexDone(r, ok)
    \/ \E r \in R, ok \in BOOLEAN, results \in QueryResults :
            QueryIndexDone(r, ok, results)
    \/ Tick

\* One invocation of callToolHandler, every input.
Next == Step({1}, ToolNames, CodeArgs, TimeoutArgs, OutChars)

Spec == Init /\ [][Next]_vars

\* What the event loop and the operating system guarantee: a handler whose
\* awaited import has resolved resumes, a failed spawn reports itself, an
\* armed timer fires while the child is alive, and a child that SIGTERM
\* ended closes.  Nothing makes a child that keeps running exit.
ResumeCjs ==
    \E r \in Req, mkdirOk \in BOOLEAN, rnd \in 1..MaxRand,
       writeOk \in BOOLEAN, outcome \in SpawnOutcomes :
        CjsBody(r, mkdirOk, rnd, writeOk, outcome)

ReportSpawnError ==
    \E r \in Req, ok1 \in BOOLEAN, ok2 \in BOOLEAN : SpawnErrorNT(r, ok1, ok2)

TimerFires ==
    \E r \in Req, outcome \in {"killed", "ignored", "killfail"},
       ok \in BOOLEAN : TimeoutExpire(r, outcome, ok)

KilledChildCloses ==
    \E r \in Req, ok \in BOOLEAN :
        child[r].state = "killed" /\ ChildClose(r, Null, ok)

Fairness ==
    /\ WF_vars(ResumeCjs)
    /\ WF_vars(ReportSpawnError)
    /\ WF_vars(TimerFires)
    /\ WF_vars(KilledChildCloses)

SpecLive == Init /\ [][Next]_vars /\ Fairness

\* Two commonjs invocations in flight at once: their arrival, their temp
\* files, the timeout and the terminal events of their children.
NextConcurrent ==
    \/ \E r \in Req, outcome \in SpawnOutcomes :
            CallNode(r, "executenodejs", Some(<<"require", "(", "x">>),
                     Undefined, outcome)
    \/ \E r \in Req, mkdirOk \in BOOLEAN, rnd \in 1..MaxRand,
          writeOk \in BOOLEAN, outcome \in SpawnOutcomes :
            CjsBody(r, mkdirOk, rnd, writeOk, outcome)
    \/ \E r \in Req, ok1 \in BOOLEAN, ok2 \in BOOLEAN : SpawnErrorNT(r, ok1, ok2)
    \/ \E r \in Req, outcome \in {"killed", "ignored", "killfail"},
          ok \in BOOLEAN : TimeoutExpire(r, outcome, ok)
    \/ \E r \in Req, code \in ExitCodes, ok \in BOOLEAN : ChildClose(r, code, ok)
    \/ Tick

SpecConcurrent == Init /\ [][NextConcurrent]_vars

\* Two module-strategy invocations in flight at once, their children's
\* data, error, timeout and close events interleaved in every order.
NextIsolation ==
    \/ \E r \in Req, outcome \in SpawnOutcomes :
            CallNode(r, "executenodejs", Some(<<"x">>), Undefined, outcome)
    \/ \E r \in Req : StdoutData(r, "x")
    \/ \E r \in Req : StderrData(r, "x")
    \/ \E r \in Req, ok1 \in BOOLEAN, ok2 \in BOOLEAN : SpawnErrorNT(r, ok1, ok2)
    \/ \E r \in Req, outcome \in {"killed", "ignored", "killfail"},
          ok \in BOOLEAN : TimeoutExpire(r, outcome, ok)
    \/ \E r \in Req, code \in ExitCodes, ok \in BOOLEAN : ChildClose(r, code, ok)

SpecIsolation == Init /\ [][NextIsolation]_vars

\* A commonjs invocation followed, while it is in flight or after it, by a
\* module-strategy or Deno invocation.
NextMixed ==
    \/ \E outcome \in SpawnOutcomes :
            CallNode(1, "executenodejs", Some(<<"require", "(", "x">>),
                     Undefined, outcome)
    \/ \E outcome \in SpawnOutcomes :
            CallNode(2, "execute", Some(<<"x">>), Undefined, outcome)
    \/ \E outcome \in SpawnOutcomes :
            CallDeno(2, "executedeno", Some(<<"x">>), Undefined, outcome)
    \/ \E r \in Req, mkdirOk \in BOOLEAN, rnd \in 1..MaxRand,
          writeOk \in BOOLEAN, outcome \in SpawnOutcomes :
            CjsBody(r, mkdirOk, rnd, writeOk, outcome)
    \/ \E r \in Req, ok1 \in BOOLEAN, ok2 \in BOOLEAN : SpawnErrorNT(r, ok1, ok2)
    \/ \E r \in Req, outcome \in {"killed", "ignored", "killfail"},
          ok \in BOOLEAN : TimeoutExpire(r, outcome, ok)
    \/ \E r \in Req, code \in ExitCodes, ok \in BOOLEAN : ChildClose(r, code, ok)

SpecMixed == Init /\ [][NextMixed]_vars

\* Two commonjs invocations while the temp directory and its files are
\* deleted from outside.
NextExternal ==
    \/ \E r \in Req, outcome \in SpawnOutcomes :
            CallNode(r, "executenodejs", Some(<<"require", "(", "x">>),
                     Undefined, outcome)
    \/ \E r \in Req, mkdirOk \in BOOLEAN, rnd \in 1..MaxRand,
          writeOk \in BOOLEAN, outcome \in SpawnOutcomes :
            CjsBody(r, mkdirOk, rnd, writeOk, outcome)
    \/ \E r \in Req, ok1 \in BOOLEAN, ok2 \in BOOLEAN : SpawnErrorNT(r, ok1, ok2)
    \/ \E r \in Req, code \in ExitCodes, ok \in BOOLEAN : ChildClose(r, code, ok)
    \/ DeleteTempDir
    \/ \E f \in files : DeleteTempFile(f)

SpecExternal == Init /\ [][NextExternal]_vars

\* Every source text of at most MaxCodeLen pieces.
Codes == UNION { [1..n -> Tokens] : n \in 0..MaxCodeLen }

\* executeCode on every non-empty source text, up to its first suspension.
NextClassify ==
    \E code \in Codes, outcome \in SpawnOutcomes :
        CallNode(1, "executenodejs", Some(code), Undefined, outcome)

SpecClassify == Init /\ [][NextClassify]_vars

\* Every list argument of at most MaxArgLen characters, and its absence.
ArgStrings == UNION { [1..n -> ArgChars] : n \in 0..MaxArgLen }
ListArgs == {Undefined} \cup {Some(a) : a \in ArgStrings}

\* A search request with one list argument drawn from ListArgs and the
\* other two absent, followed through the synchronisation and the query.
NextSearch ==
    \/ \E arg \in ListArgs, given \in {"folders", "extensions", "ignores"},
          topK \in TopKArgs :
            CallSearch(1, "searchcode", Some(<<"parse config">>),
                       IF given = "folders" THEN arg ELSE Undefined,
                       IF given = "extensions" THEN arg ELSE Undefined,
                       IF given = "ignores" THEN arg ELSE Undefined,
                       topK)
    \/ \E ok \in BOOLEAN : SearchImported(1, ok)
    \/ \E ok \in BOOLEAN : SyncIndexDone(1, ok)
    \/ \E ok \in BOOLEAN, results \in QueryResults : QueryIndexDone(1, ok, results)

SpecSearch == Init /\ [][NextSearch]_vars

\* ================================================================ claims
Fulfilled(r) == promise[r].state = "fulfilled"
Rejected(r) == promise[r].state = "rejected"
Result(r) == promise[r].value
IsExec(r) == strategy[r] \in {"module", "commonjs", "deno"}

\* A segment whose text starts with the error prefix.
IsErrorSegment(seg) ==
    seg.type = "text" /\ Len(seg.text) > 0 /\ seg.text[1] = ErrorPrefix

HasErrorSegment(content) ==
    \E i \in 1..Len(content) : IsErrorSegment(content[i])

\* C1: whatever terminal events a child emits ('error', 'close', or both),
\* the caller of the executor gets exactly one result: once a terminal
\* event has fired the promise is fulfilled and the handler has returned,
\* and from then on neither the promise's value nor the response changes.
C1_ExactlyOneResult ==
    [][\A r \in Req :
          /\ events'[r] # <<>> =>
                /\ promise'[r].state = "fulfilled"
                /\ pc'[r] = "done"
                /\ response'[r] # <<>>
          /\ Settled(promise[r]) => promise'[r] = promise[r]
          /\ pc[r] = "done" => response'[r] = response[r] /\ pc'[r] = "done"]_vars

\* C1 witness: 'error' fired (kill failed), the result was returned, and
\* 'close' fired later for the same child with exit code 0.
C1_Witness ==
    \E r \in Req :
        /\ events[r] = <<"error", "close">>
        /\ child[r].code = Some(0)
        /\ Fulfilled(r) /\ Has(Result(r), "error")
        /\ pc[r] = "done"

\* C2: every result of an executor carries executionTimeMs, and it is
\* non-negative.
C2_AlwaysTimed ==
    \A r \in Req :
        Fulfilled(r) =>
            /\ Has(Result(r), "executionTimeMs")
            /\ Result(r).executionTimeMs >= 0

\* C3 as stated: in every result, success is true if and only if the
\* child process terminated with exit code 0.
C3_Original ==
    \A r \in Req :
        Fulfilled(r) =>
            (Result(r).success <=>
                (child[r].state = "closed" /\ child[r].code = Some(0)))

\* C3 amended: in every result, success is true exactly when the result
\* was built by the 'close' handler from exit code 0, and that code is the
\* child's own; so a child ended by a signal (code null), a non-zero exit
\* and a failed spawn give success = false, and a child whose only
\* terminal event is 'close' with code 0 gives success = true.  A result
\* that an 'error' event settled first stays a failure.
C3_SuccessIffExitZero ==
    \A r \in Req :
        Fulfilled(r) =>
            /\ Result(r).success <=>
                  (Has(Result(r), "code") /\ Result(r).code = Some(0))
            /\ Has(Result(r), "code") =>
                  child[r].state = "closed" /\ Result(r).code = child[r].code
            /\ Result(r).success =>
                  child[r].state = "closed" /\ child[r].code = Some(0)
            /\ (child[r].state = "closed" /\ child[r].code # Some(0)) =>
                  ~Result(r).success
            /\ (child[r].state = "closed" /\ events[r] = <<"close">>
                  /\ child[r].code = Some(0)) => Result(r).success

\* C3 witness: a child ended by a signal (exit code null) and the result
\* built from its 'close' is a failure.
C3_Witness ==
    \E r \in Req :
        /\ Fulfilled(r) /\ Has(Result(r), "code")
        /\ child[r].state = "closed" /\ child[r].code = Null
        /\ ~Result(r).success

\* C4: once a commonjs request's outcome is delivered to the router, its
\* temp file is absent from the temp directory.
C4_TempFileGone ==
    \A r \in Req :
        (strategy[r] = "commonjs" /\ pc[r] = "done" /\ tempFile[r] # Undefined)
            => tempFile[r][1] \notin files

\* The five markers the claim lists, as an occurrence test of its own.
Occurs(code, marker) ==
    \E i \in 1..Len(code) :
        /\ i + Len(marker) - 1 <= Len(code)
        /\ SubSeq(code, i, i + Len(marker) - 1) = marker

ClaimedCjs(code) ==
    \/ Occurs(code, <<"require", "(">>)
    \/ Occurs(code, <<"module", ".", "exports">>)
    \/ Occurs(code, <<"__dirname">>)
    \/ Occurs(code, <<"__filename">>)
    \/ Occurs(code, <<"exports", ".">>)

\* C5: executeCode takes the temp-file (commonjs) strategy exactly for the
\* source texts that contain one of the five markers anywhere, and the
\* stdin-pipe (module) strategy for all others; every text gets one of
\* the two.
C5_ClassifierDecision ==
    \A r \in Req :
        (request[r].name \in NodeToolNames /\ ~Falsy(request[r].code)) =>
            /\ strategy[r] \in {"commonjs", "module"}
            /\ strategy[r] = "commonjs" <=> ClaimedCjs(request[r].code[1])

\* C5 witness: a text whose only marker, 'exports.', sits in its middle
\* was given the commonjs strategy.
C5_Witness ==
    \E r \in Req :
        /\ request[r].code = Some(<<"x", "exports", ".">>)
        /\ strategy[r] = "commonjs"

InFlightCjs(r) ==
    strategy[r] = "commonjs" /\ pc[r] = "await_exec" /\ tempFile[r] # Undefined

LacksRequiredArg(r) ==
    \/ /\ request[r].name \in
            {"executenodejs", "execute", "mcp_mcp_repl_execute",
             "executedeno", "mcp_mcp_repl_executedeno"}
       /\ (request[r].code = Undefined \/ request[r].code = Some(<<>>))
    \/ /\ request[r].name \in {"searchcode", "mcp_mcp_repl_searchcode"}
       /\ (request[r].query = Undefined \/ request[r].query = Some(<<>>))

\* C7: a call of an execution tool without code, or of the search tool
\* without query, is answered with an error-text segment, and for that
\* request no child was spawned, no temp file was written and no
\* search-collaborator operation was called.
C7_MissingArgument ==
    \A r \in Req :
        LacksRequiredArg(r) =>
            /\ pc[r] = "done"
            /\ Len(response[r]) = 1 /\ IsErrorSegment(response[r][1])
            /\ spawns[r] = 0 /\ child[r] = NoChild
            /\ tempFile[r] = Undefined /\ files = {}
            /\ searchOps[r] = <<>>
            /\ strategy[r] = "none"

\* C7 witness: an execution tool was called with an empty code argument
\* and got the missing-argument error.
C7_Witness ==
    \E r \in Req :
        /\ request[r].name = "executedeno" /\ request[r].code = Some(<<>>)
        /\ response[r] = CatchContent(<<"Missing code argument for Deno execute tool">>)

DispatchedNames ==
    {"executenodejs", "execute", "mcp_mcp_repl_execute",
     "executedeno", "mcp_mcp_repl_executedeno",
     "searchcode", "mcp_mcp_repl_searchcode"}

\* C8: a call with a tool name that is not dispatched is answered with
\* exactly one error-text segment whose text contains that name, and no
\* executor and no search operation is invoked.
C8_UnknownTool ==
    \A r \in Req :
        (pc[r] # "idle" /\ request[r].name \notin DispatchedNames) =>
            /\ pc[r] = "done"
            /\ Len(response[r]) = 1 /\ IsErrorSegment(response[r][1])
            /\ \E i \in 1..Len(response[r][1].text) :
                  response[r][1].text[i] = request[r].name
            /\ strategy[r] = "none" /\ spawns[r] = 0 /\ child[r] = NoChild
            /\ searchOps[r] = <<>>

\* C8 witness: the name 'listfiles' was called and answered.
C8_Witness ==
    \E r \in Req :
        /\ request[r].name = "listfiles"
        /\ response[r] = << Segment(<<"ERROR: ", "Unknown tool: ", "listfiles">>) >>

\* The request ran into an exception or rejection that reached the
\* router's catch, or into a failure of the search collaborator.
RouterCaught(r) ==
    \/ Rejected(r)
    \/ LacksRequiredArg(r)
    \/ pc[r] # "idle" /\ request[r].name \notin DispatchedNames
    \/ strategy[r] = "search" /\ pc[r] = "done" /\ Len(searchOps[r]) < 2

ExecFailed(r) ==
    IsExec(r) /\ pc[r] = "done" /\ (Rejected(r) \/ ~Result(r).success)

\* C10 as stated: every failed execution is rendered with at least one
\* error-prefixed segment.
C10_Original ==
    \A r \in Req : ExecFailed(r) => HasErrorSegment(response[r])

\* C10 amended: a failed execution whose promise rejected, or whose result
\* carries an error message or non-empty stderr, is rendered with at
\* least one error-prefixed segment.
C10_ErrorSegmentWhenReported ==
    \A r \in Req :
        (/\ ExecFailed(r)
         /\ \/ Rejected(r)
            \/ Has(Result(r), "error")
            \/ (Has(Result(r), "stderr") /\ Result(r).stderr # <<>>))
            => HasErrorSegment(response[r])

\* C10 witness: a child wrote to stderr and exited with code 1.
C10_Witness ==
    \E r \in Req :
        /\ ExecFailed(r) /\ Fulfilled(r)
        /\ Has(Result(r), "stderr") /\ Result(r).stderr = <<"x">>
        /\ Result(r).code = Some(1)
        /\ HasErrorSegment(response[r])

\* The segments the rendering rule lists for a result, in its order; the
\* summary shows the result's elapsed time and its exit code, 0 when the
\* result has none.
RuleSegments(res, label) ==
    LET out == IF Has(res, "stdout") THEN res.stdout ELSE <<>>
        err == IF Has(res, "stderr") THEN res.stderr ELSE <<>>
        shown == IF Has(res, "code") /\ res.code # Null
                 THEN ToString(res.code[1]) ELSE "0"
    IN  (IF out # <<>> THEN << [type |-> "text", text |-> Trim(out)] >>
         ELSE <<>>)
        \o (IF err # <<>>
            THEN << [type |-> "text", text |-> <<"ERROR: ">> \o Trim(err)] >>
            ELSE <<>>)
        \o (IF Has(res, "error")
            THEN << [type |-> "text", text |-> <<"ERROR: ">> \o res.error] >>
            ELSE <<>>)
        \o << [type |-> "text",
               text |-> <<label, ToString(res.executionTimeMs),
                          "ms with exit code ", shown>>] >>

RuleLabel(r) ==
    IF request[r].name \in {"executedeno", "mcp_mcp_repl_executedeno"}
    THEN "Deno execution completed in " ELSE "Execution completed in "

\* C11: when the executor of an execution tool returned a result, the
\* response is exactly: the trimmed stdout iff stdout is non-empty, then
\* 'ERROR: ' + trimmed stderr iff stderr is non-empty, then 'ERROR: ' + the
\* error message iff one is present, then one summary segment, last,
\* stating the elapsed time and the exit code (0 when there is none).
C11_Rendering ==
    \A r \in Req :
        (IsExec(r) /\ Fulfilled(r)) =>
            /\ pc[r] = "done"
            /\ Has(Result(r), "executionTimeMs")
            /\ response[r] = RuleSegments(Result(r), RuleLabel(r))

\* The same rule for the results that carry an elapsed time; a result
\* without one is rendered by the same rule with the text 'undefined' in
\* the place of the time.
RenderingWhenTimed ==
    \A r \in Req :
        (IsExec(r) /\ Fulfilled(r)) =>
            /\ pc[r] = "done"
            /\ Has(Result(r), "executionTimeMs") =>
                  response[r] = RuleSegments(Result(r), RuleLabel(r))
            /\ ~Has(Result(r), "executionTimeMs") =>
                  response[r] =
                      << [type |-> "text", text |-> <<"ERROR: ">> \o Result(r).error],
                         [type |-> "text",
                          text |-> <<RuleLabel(r), "undefined",
                                     "ms with exit code ", "0">>] >>

\* The request is an execution request with a positive timeout whose
\* executor has been entered.
TimedExecution(r) ==
    /\ IsExec(r)
    /\ request[r].timeout = Undefined \/ request[r].timeout[1] > 0

\* C12: every execution request issued with a positive timeout eventually
\* produces its result, whatever the executed code does with the
\* termination signal.
C12_EventuallyResult ==
    \A r \in Req : TimedExecution(r) ~> (pc[r] = "done")

\* Once the termination signal has ended the child, the request does get
\* its result, and it is a failure built from exit code null.
KilledEventuallyFails ==
    \A r \in Req :
        (child[r].state = "killed" /\ ~Settled(promise[r])) ~>
            (IF pc[r] = "done" /\ Fulfilled(r) /\ Has(Result(r), "code")
             THEN ~Result(r).success /\ Result(r).code = Null
             ELSE FALSE)

\* The comma-separated, trimmed items of a list argument.
TrimmedItems(a) == [i \in 1..Len(Split(a)) |-> Trim(Split(a)[i])]

SyncCalls(r) ==
    {i \in 1..Len(searchOps[r]) : searchOps[r][i].op = "syncIndex"}

QueryCalls(r) ==
    {i \in 1..Len(searchOps[r]) : searchOps[r][i].op = "queryIndex"}

\* C13 as stated: with folders, extensions and ignores omitted the index is
\* synchronised with [working directory], [js, ts], [node_modules], and the
\* query runs with topK 8 when topK is omitted; a supplied argument's
\* comma-separated, trimmed items are used instead of the default.
C13_Original ==
    \A r \in Req :
        /\ \A i \in SyncCalls(r) :
            LET used == searchOps[r][i].args IN
            /\ used[1] = IF request[r].folders = Undefined THEN << WorkingDir >>
                         ELSE TrimmedItems(request[r].folders[1])
            /\ used[2] = IF request[r].extensions = Undefined
                         THEN << <<"js">>, <<"ts">> >>
                         ELSE TrimmedItems(request[r].extensions[1])
            /\ used[3] = IF request[r].ignores = Undefined
                         THEN << <<"node_modules">> >>
                         ELSE TrimmedItems(request[r].ignores[1])
        /\ \A i \in QueryCalls(r) :
            request[r].topK = Undefined => searchOps[r][i].args[2] = 8

\* An argument that is absent or the empty string.
Omitted(arg) == arg = Undefined \/ arg = Some(<<>>)

\* C13 amended: an omitted (or empty) folders, extensions or ignores
\* argument gives [working directory], [js, ts], [node_modules]; a
\* non-empty one gives its comma-separated, trimmed items, each folder
\* resolved to an absolute path and each extension without one leading
\* dot; the query runs with topK 8 when topK is omitted or 0, else with the
\* supplied topK.  The index is synchronised once, before the one query.
C13_ResolvedArguments ==
    \A r \in Req :
        /\ \A i \in SyncCalls(r) :
            LET used == searchOps[r][i].args
                f == request[r].folders
                e == request[r].extensions
                g == request[r].ignores
            IN
            /\ i = 1
            /\ used[1] = IF Omitted(f) THEN << WorkingDir >>
                         ELSE [k \in 1..Len(TrimmedItems(f[1])) |->
                                  PathResolve(TrimmedItems(f[1])[k])]
            /\ used[2] = IF Omitted(e) THEN << <<"js">>, <<"ts">> >>
                         ELSE [k \in 1..Len(TrimmedItems(e[1])) |->
                                  LET t == TrimmedItems(e[1])[k] IN
                                  IF t # <<>> /\ t[1] = "."
                                  THEN SubSeq(t, 2, Len(t)) ELSE t]
            /\ used[3] = IF Omitted(g) THEN << <<"node_modules">> >>
                         ELSE TrimmedItems(g[1])
        /\ \A i \in QueryCalls(r) :
            /\ i = 2 /\ 1 \in SyncCalls(r)
            /\ searchOps[r][i].args[1] = request[r].query[1]
            /\ searchOps[r][i].args[2] =
                  IF request[r].topK \in {Undefined, Some(0)} THEN 8
                  ELSE request[r].topK[1]

\* C13 witness: a search with folders and ignores omitted, extensions
\* ' .a' and no topK was synchronised with the defaults and the extension
\* a, and queried with topK 8.
C13_Witness ==
    \E r \in Req :
        /\ request[r].folders = Undefined /\ request[r].ignores = Undefined
        /\ request[r].extensions = Some(<<" ", ".", "a">>)
        /\ request[r].topK = Undefined
        /\ Len(searchOps[r]) = 2
        /\ searchOps[r][1].args =
              << << WorkingDir >>, << <<"a">> >>, << <<"node_modules">> >> >>
        /\ searchOps[r][2].args[2] = 8
        /\ pc[r] = "done"

\* The request ran a snippet with a top-level return and its child closed
\* by itself.
ReturnSnippetRan(r) ==
    /\ IsExec(r) /\ pc[r] = "done"
    /\ TopLevelReturn(request[r].code[1])
    /\ events[r] = <<"close">> /\ child[r].code # Null

\* C14: a snippet that ends with a top-level 'return <expr>' completes
\* successfully and the value of <expr> is reported as the return value of
\* the execution.
C14_ReturnValue ==
    \A r \in Req :
        ReturnSnippetRan(r) =>
            /\ Fulfilled(r)
            /\ Result(r).success
            /\ Has(Result(r), "returnValue")

\* The timeout supervisor's signal ended the child and the child closed.
TimedOut(r) == child[r].terminated /\ child[r].state = "closed"

\* C15: when the timeout supervisor terminates a running child, the
\* request's result has success = false, no error message and no timeout
\* flag (its fields are those of any close result, with exit code null),
\* and its stdout and stderr are exactly the data that arrived from the
\* child.
C15_TimeoutResult ==
    \A r \in Req :
        TimedOut(r) =>
            /\ Fulfilled(r) /\ pc[r] = "done"
            /\ ~Result(r).success
            /\ DOMAIN Result(r) =
                  {"success", "stdout", "stderr", "executionTimeMs", "code"}
            /\ Result(r).code = Null
            /\ Result(r).stdout = Concat(chunks[r].stdout)
            /\ Result(r).stderr = Concat(chunks[r].stderr)

\* C15 witness: a child that had written x to stdout and then x to stderr
\* was terminated by the supervisor; the result carries both.
C15_Witness ==
    \E r \in Req :
        /\ TimedOut(r) /\ Fulfilled(r)
        /\ chunks[r].stdout = << <<"x">> >> /\ chunks[r].stderr = << <<"x">> >>
        /\ Result(r).stdout = <<"x">> /\ Result(r).stderr = <<"x">>
        /\ ~Result(r).success

\* C16: in every result an error message and an exit code are never both
\* present; a result with an error message has success = false and no
\* stdout or stderr field, whatever the child had written before.
C16_ErrorResultShape ==
    \A r \in Req :
        Fulfilled(r) =>
            /\ ~(Has(Result(r), "error") /\ Has(Result(r), "code"))
            /\ Has(Result(r), "error") =>
                  /\ ~Result(r).success
                  /\ ~Has(Result(r), "stdout") /\ ~Has(Result(r), "stderr")

\* C16 witness: the child had written to stdout and stderr when its
\* 'error' event fired; the result carries the message and no output.
C16_Witness ==
    \E r \in Req :
        /\ Fulfilled(r) /\ Has(Result(r), "error")
        /\ events[r] = <<"error">>
        /\ chunks[r].stdout # <<>> /\ chunks[r].stderr # <<>>
        /\ ~Has(Result(r), "stdout") /\ ~Has(Result(r), "code")

\* Everything that belongs to one request.
Local(r) ==
    <<pc[r], strategy[r], startTime[r], tempFile[r], child[r], stdout[r],
      stderr[r], promise[r], response[r], request[r], spawns[r], events[r],
      draw[r], chunks[r]>>

\* The result of request r is made of its own child's output, exit code
\* and error.
OwnResult(r) ==
    Fulfilled(r) =>
        /\ Has(Result(r), "code") =>
              /\ child[r].state = "closed" /\ Result(r).code = child[r].code
              /\ Result(r).stdout = Concat(chunks[r].stdout)
              /\ Result(r).stderr = Concat(chunks[r].stderr)
        /\ Has(Result(r), "error") =>
              \E i \in 1..Len(events[r]) : events[r][i] = "error"

Failed(r) ==
    \/ Rejected(r)
    \/ Fulfilled(r) /\ ~Result(r).success

\* C18: an execution request spawns at most one child over its lifetime;
\* once a child has been spawned for it no other is, and a failure (spawn
\* error, non-zero exit, timeout) is final: it is reported as the
\* request's result and never replaced.
C18_SingleSpawn ==
    /\ [](\A r \in Req :
            /\ spawns[r] <= 1
            /\ child[r].state # "none" => spawns[r] = 1
            /\ (IsExec(r) /\ Failed(r)) => pc[r] = "done" /\ response[r] # <<>>)
    /\ [][\A r \in Req :
            /\ spawns[r] = 1 => spawns'[r] = 1
            /\ Failed(r) =>
                  /\ promise'[r] = promise[r]
                  /\ response'[r] = response[r]
                  /\ spawns'[r] = spawns[r]]_vars

\* C18 witness: the one spawn of a request failed, the failure was
\* reported, and no second child was spawned.
C18_Witness ==
    \E r \in Req :
        /\ spawns[r] = 1 /\ events[r] = <<"error", "close">>
        /\ Fulfilled(r) /\ Result(r).error = SpawnErrorMsg
        /\ pc[r] = "done" /\ HasErrorSegment(response[r])

\* Where an invocation stands: 0 not started, 1 created, 2 spawned,
\* 3 streaming, 4 terminal.
Rank(r) ==
    CASE ~IsExec(r) -> 0
      [] Settled(promise[r]) -> 4
      [] spawns[r] = 0 -> 1
      [] chunks[r].stdout = <<>> /\ chunks[r].stderr = <<>> -> 2
      [] OTHER -> 3

\* The terminal state: closed (a result with an exit code) or spawn_error.
Terminal(r) ==
    IF Fulfilled(r) /\ Has(Result(r), "code") THEN "closed" ELSE "spawn_error"

\* C19: an invocation moves only forward through created, spawned,
\* streaming and one terminal state, closed(exit code) or spawn_error, and
\* never leaves it; a result built from the closed state is produced when
\* the child has closed, no chunk arrives after it, and its stdout and
\* stderr are the concatenation, in arrival order, of every chunk.
C19_ForwardOnly ==
    /\ [](\A r \in Req :
            (Rank(r) = 4 /\ Terminal(r) = "closed") =>
                /\ child[r].state = "closed"
                /\ Result(r).code = child[r].code
                /\ Result(r).stdout = Concat(chunks[r].stdout)
                /\ Result(r).stderr = Concat(chunks[r].stderr))
    /\ [][\A r \in Req :
            /\ Rank(r)' >= Rank(r)
            /\ Rank(r) = 4 =>
                  /\ promise'[r] = promise[r]
                  /\ Terminal(r)' = Terminal(r)
            /\ (Rank(r) = 4 /\ Terminal(r) = "closed") => chunks'[r] = chunks[r]]_vars

\* C19 witness: two chunks arrived on stdout, x and then a space, the
\* child closed with code 0 and the result holds both in that order.
C19_Witness ==
    \E r \in Req :
        /\ Rank(r) = 4 /\ Terminal(r) = "closed"
        /\ chunks[r].stdout = << <<"x">>, <<" ">> >>
        /\ Result(r).stdout = <<"x", " ">>
        /\ Result(r).code = Some(0)

\* The request was classified as module strategy, or is a Deno request.
PipedRequest(r) ==
    \/ strategy[r] = "module"
    \/ request[r].name \in {"executedeno", "mcp_mcp_repl_executedeno"}

\* C20: no step of a module-strategy request or of a Deno request changes
\* the filesystem: the temp directory and the set of temp files stay as
\* they are.  A temp file appears only in the step in which a commonjs
\* request writes its own, that request names one path for its lifetime
\* and has written it before it spawns; the temp directory is created and
\* a file is deleted only by a step of a commonjs request.
C20_FilesystemFrame ==
    /\ [](\A r \in Req :
            /\ PipedRequest(r) => tempFile[r] = Undefined
            /\ (strategy[r] = "commonjs" /\ spawns[r] = 1) => tempFile[r] # Undefined)
    /\ [][/\ \A r \in Req :
                /\ (PipedRequest(r)' /\ Local(r)' # Local(r)) =>
                      files' = files /\ tempDir' = tempDir
                /\ tempFile[r] # Undefined => tempFile'[r] = tempFile[r]
                /\ (strategy[r] = "commonjs" /\ spawns'[r] # spawns[r]) =>
                      /\ tempFile[r] = Undefined /\ tempFile'[r] # Undefined
                      /\ files' = files \cup {tempFile'[r][1]}
          /\ (files' # files \/ tempDir' # tempDir) =>
                \E r \in Req :
                    /\ strategy[r] = "commonjs" /\ Local(r)' # Local(r)
                    /\ \/ files' = files
                       \/ files' = files \cup {tempFile'[r][1]}
                       \/ files' = files \ {tempFile'[r][1]}]_vars

\* C20 witness: a module-strategy request ran to its child's close while
\* the temp file of a commonjs request was on disk; the file is still
\* there and the module request has none.
C20_Witness ==
    /\ strategy[1] = "commonjs" /\ tempFile[1] # Undefined
    /\ strategy[2] = "module" /\ pc[2] = "done" /\ events[2] = <<"close">>
    /\ tempFile[2] = Undefined
    /\ pc[1] = "await_exec" /\ files = {tempFile[1][1]}

\* The commonjs request's child has emitted a terminal event.
CjsEnded(r) == strategy[r] = "commonjs" /\ events[r] # <<>>

\* C21: the result of a commonjs request is what its first terminal event
\* makes it, whether the deletion of the temp file succeeded (the file is
\* gone) or failed (the file is still there): after 'close', success,
\* stdout, stderr and exit code of the child and no error message; after
\* 'error', success = false and the error message.  The handler always
\* resolves, and the response is the rendering of that result, nothing
\* more.
C21_CleanupSwallowed ==
    \A r \in Req :
        CjsEnded(r) =>
            /\ Fulfilled(r) /\ pc[r] = "done"
            /\ IF events[r][1] = "close"
               THEN /\ DOMAIN Result(r) =
                          {"success", "stdout", "stderr", "executionTimeMs", "code"}
                    /\ Result(r).code = child[r].code
                    /\ Result(r).success = (child[r].code = Some(0))
                    /\ Result(r).stdout = Concat(chunks[r].stdout)
                    /\ Result(r).stderr = Concat(chunks[r].stderr)
               ELSE /\ DOMAIN Result(r) = {"success", "error", "executionTimeMs"}
                    /\ ~Result(r).success
                    /\ Result(r).error \in {SpawnErrorMsg, KillErrorMsg}
            /\ response[r] = RuleSegments(Result(r), RuleLabel(r))

\* C21 witness: the child closed with code 0 after writing x, deleting the
\* temp file failed (it is still on disk), and the result is the success.
C21_Witness ==
    \E r \in Req :
        /\ CjsEnded(r) /\ events[r] = <<"close">>
        /\ tempFile[r][1] \in files
        /\ Fulfilled(r) /\ Result(r).success /\ Result(r).stdout = <<"x">>
        /\ Len(response[r]) = 2

\* A result executeCode's catch built because the filesystem refused to
\* create the directory or to store the file.
RefusedByFilesystem(res) ==
    Has(res, "error") /\ res.error \in {MkdirErrorMsg, WriteErrorMsg}

\* C22: with the temp directory or a file in it deleted from outside, a
\* commonjs request that then runs recreates the directory when it is
\* missing, writes its file and spawns its child (unless the filesystem
\* refuses), and every terminal event of its child gives the request its
\* ordinary result, whether its temp file is still there for the cleanup
\* or already missing; an outside deletion changes nothing that belongs
\* to a request.
C22_SafeToDelete ==
    /\ [](\A r \in Req :
            /\ CjsEnded(r) =>
                  /\ Fulfilled(r) /\ pc[r] = "done"
                  /\ Has(Result(r), "code") \/ Has(Result(r), "error")
                  /\ Has(Result(r), "error") =>
                        Result(r).error \in {SpawnErrorMsg, KillErrorMsg}
            /\ (strategy[r] = "commonjs" /\ Fulfilled(r)
                  /\ Has(Result(r), "error") /\ events[r] = <<>>) =>
                  RefusedByFilesystem(Result(r)))
    /\ [][/\ \A r \in Req :
                /\ (pc[r] = "import_fs" /\ pc'[r] # "import_fs") =>
                      \/ Fulfilled(r)' /\ RefusedByFilesystem(Result(r)')
                      \/ /\ tempDir' /\ spawns'[r] = 1
                         /\ tempFile'[r] # Undefined /\ tempFile'[r][1] \in files'
                /\ events'[r] # events[r] => pc'[r] = "done" /\ Fulfilled(r)'
          /\ external' # external => \A r \in Req : Local(r)' = Local(r)]_vars

\* C22 witness: the directory was deleted from outside after request 1 had
\* finished and before request 2 wrote its file; request 2 recreated the
\* directory, ran and returned a success.
C22_Witness ==
    /\ Len(external) = 1 /\ external[1].what = "dir"
    /\ external[1].done = {1}
    /\ strategy[2] = "commonjs" /\ tempFile[2] # Undefined
    /\ tempDir
    /\ pc[2] = "done" /\ Fulfilled(2) /\ Has(Result(2), "code")
    /\ Result(2).success

\* A second witness of the same claim: the temp file of a request was
\* deleted from outside while its child ran; the cleanup found it missing
\* and the request returned its result.
MissingAtCleanup ==
    \E r \in Req :
        /\ Len(external) = 1 /\ external[1].what = "file"
        /\ r \notin external[1].done
        /\ CjsEnded(r) /\ pc[r] = "done" /\ Has(Result(r), "code")
        /\ tempFile[r][1] \notin files

\* C23: within a search request the synchronisation is called first and
\* has completed successfully before the query is called: a query call is
\* the second call, made in the step in which the synchronisation
\* settles; while the synchronisation is pending no query has been made,
\* and if it fails none is ever made and the response is one error-text
\* segment.
C23_SyncThenQuery ==
    /\ [](\A r \in Req :
            /\ Len(searchOps[r]) <= 2
            /\ \A i \in QueryCalls(r) :
                  /\ i = 2
                  /\ searchOps[r][1].op = "syncIndex"
                  /\ searchOps[r][1].settled = "fulfilled"
            /\ \A i \in SyncCalls(r) :
                  /\ i = 1
                  /\ searchOps[r][i].settled = "pending" =>
                        QueryCalls(r) = {} /\ pc[r] = "search_sync"
                  /\ searchOps[r][i].settled = "rejected" =>
                        /\ QueryCalls(r) = {}
                        /\ pc[r] = "done"
                        /\ Len(response[r]) = 1 /\ IsErrorSegment(response[r][1]))
    /\ [][\A r \in Req :
            /\ QueryCalls(r)' # QueryCalls(r) =>
                  /\ pc[r] = "search_sync"
                  /\ searchOps[r][1].settled = "pending"
            /\ (1 \in SyncCalls(r) /\ searchOps[r][1].settled = "rejected") =>
                  searchOps'[r] = searchOps[r] /\ response'[r] = response[r]]_vars

\* C23 witness: the synchronisation of a search request failed; no query
\* was made and the response is the error segment.
C23_Witness ==
    \E r \in Req :
        /\ Len(searchOps[r]) = 1 /\ searchOps[r][1].op = "syncIndex"
        /\ searchOps[r][1].settled = "rejected"
        /\ response[r] = << Segment(<<"ERROR: ">> \o SyncErrorMsg) >>

\* A second witness of the same claim: synchronisation, then the query,
\* both completed.
SyncThenQueryRan ==
    \E r \in Req :
        /\ Len(searchOps[r]) = 2
        /\ searchOps[r][1].settled = "fulfilled"
        /\ searchOps[r][2].op = "queryIndex" /\ searchOps[r][2].settled = "fulfilled"
        /\ pc[r] = "done" /\ Len(response[r]) >= 3

\* The commonjs child of request r runs and has emitted no terminal event.
CjsChildAlive(r) ==
    /\ strategy[r] = "commonjs" /\ tempFile[r] # Undefined
    /\ child[r].state \in {"alive", "alive_nt", "killed"}
    /\ events[r] = <<>>

OtherFileKept ==
    /\ pc[1] = "done" /\ events[1] = <<"close">> /\ tempFile[1] # Undefined
    /\ CjsChildAlive(2) /\ tempFile[1] # tempFile[2]
    /\ files = {tempFile[2][1]}

====
